---- MODULE Spec2Model ----
(***************************************************************************)
(* Squad selection of the FPL optimizer scripts:                           *)
(*   WildcardTeamBuilder      src/src/fpl_optimizer/analysis/gw3_wc.py     *)
(*   RealisticTeamOptimizer   src/analysis/gw3_wc.py                       *)
(*   EnhancedWildcardOptimizer src/wildcard_optimizer.py                   *)
(*                                                                         *)
(* Units.  Prices and the budget are in tenths of a million (the API's     *)
(* now_cost), so 100.0 is 1000 and the 4.0 of build_budget_team is 40.     *)
(* Scores are in twentieths of a point (0.05), so the minimum score 0.1 of  *)
(* the cleaning is 2; ownership and expected points are in tenths.         *)
(* A data frame is a function from its index (the player id) to the row;   *)
(* a selected team is the sequence of the ids of its rows.                 *)
(***************************************************************************)
EXTENDS Integers, Sequences, FiniteSets, TLC

VARIABLES
    prog,       \* which script runs: "wtb", "rto" or "ewo"
    mini,       \* EnhancedWildcardOptimizer.mini_league_mode
    players,    \* players_df handed to the optimizer
    pc,         \* position of the run
    viable,     \* result of check_squad_viability: "unset", "pass" or "fail"
    reduced,    \* index of players_df after the per-position reduction
    status,     \* LpStatus of the last solve ("unset" before any solve)
    nSolves,    \* number of prob.solve() calls made
    team,       \* rows of the data frame held by the run (selected team)
    ret,        \* value returned by the selector: "unset", "team", "empty", "None"
    bb,         \* locals of build_budget_team
    s2,         \* locals of stage2_apply_differential_optimization
    outcome     \* what the run_* entry point returned: "unset", "team", "None"

vars == <<prog, mini, players, pc, viable, reduced, status, nSolves,
          team, ret, bb, s2, outcome>>

-----------------------------------------------------------------------------
(* Program constants *)

SquadSize == 15
MaxPerClub == 3
DefaultBudget == 1000
MinViablePrice == 40
TopScorers == 20
CheapOptions == 10
MidPriceOptions == 10
ScoreFloor == 2
MaxSwaps == 3

\* WildcardTeamBuilder.squad_requirements, in dict order
squad_requirements ==
    ("GKP" :> 2) @@ ("DEF" :> 5) @@ ("MID" :> 5) @@ ("FWD" :> 3)
RequirementOrder == <<"GKP", "DEF", "MID", "FWD">>

\* RealisticTeamOptimizer / EnhancedWildcardOptimizer.formation_constraints
formation_constraints ==
    ("GK" :> 2) @@ ("DEF" :> 5) @@ ("MID" :> 5) @@ ("FWD" :> 3)

-----------------------------------------------------------------------------
(* Data-frame helpers *)

Range(s) == {s[i] : i \in DOMAIN s}

Max(a, b) == IF a >= b THEN a ELSE b

RECURSIVE SumOf(_, _)
\* Sum of f over the finite set S of its domain
SumOf(f, S) ==
    IF S = {} THEN 0
    ELSE LET x == CHOOSE y \in S : TRUE IN f[x] + SumOf(f, S \ {x})

Prices(df) == [i \in DOMAIN df |-> df[i].price]
Scores(df) == [i \in DOMAIN df |-> df[i].score]

\* df[df['position'] == position].index
PosIds(df, position) == {i \in DOMAIN df : df[i].position = position}

\* df[df['team'] == team_id].index
TeamIds(df, team_id) == {i \in DOMAIN df : df[i].team = team_id}

Teams(df) == {df[i].team : i \in DOMAIN df}

\* The ids of S in index order
RECURSIVE InIndexOrder(_)
InIndexOrder(S) ==
    IF S = {} THEN <<>>
    ELSE LET m == CHOOSE x \in S : \A y \in S : x <= y
         IN <<m>> \o InIndexOrder(S \ {m})

RECURSIVE KSub(_, _)
\* The subsets of S (a set of ids) with exactly k members
KSub(S, k) ==
    IF k = 0 THEN {{}}
    ELSE UNION {{T \cup {x} : T \in KSub({y \in S : y > x}, k - 1)} : x \in S}

-----------------------------------------------------------------------------
(* Candidate pools: the inputs of the runs                                 *)

\* Bounds of the model
BankJunk == 10        \* cheap low-scoring goalkeepers of the deep pool
BankPremium == 20     \* expensive high-scoring goalkeepers of the deep pool
MaxResidual == 1      \* most variables left at 1 by a solve that is not Optimal

P(pos, tm, pr, sc, own, ep, fd) ==
    [position |-> pos, team |-> tm, price |-> pr, score |-> sc,
     selected_by_percent |-> own, fixture_adjusted_ep |-> ep,
     fixture_difficulty |-> fd]

\* 1..14 are in every small pool, 15..20 are optional, 21..23 are forwards
\* that appear in the threshold pools only.
Roster ==
    <<P("GK",  "A",  50, 40, 350, 35, 3),
      P("GK",  "A",  45, 30, 200, 30, 3),
      P("DEF", "A",  55, 50, 350, 40, 3),
      P("DEF", "B",  60, 55, 300, 45, 2),
      P("DEF", "C",  50, 45, 200, 35, 3),
      P("DEF", "D",  45, 35, 140, 30, 4),
      P("DEF", "E",  45, 30, 350, 25, 3),
      P("MID", "B", 130, 90, 500, 70, 2),
      P("MID", "C", 100, 80, 400, 60, 3),
      P("MID", "D",  80, 70, 320, 50, 4),
      P("MID", "E",  65, 60, 180, 45, 3),
      P("MID", "F",  55, 45, 310, 40, 2),
      P("FWD", "B",  90, 85, 450, 60, 2),
      P("FWD", "C",  60, 55, 310, 40, 3),
      P("FWD", "A",  45, 60,  80, 35, 3),
      P("FWD", "G",  80, 20, 600, 20, 4),
      P("FWD", "D",  65, 65,  30, 50, 3),
      P("GK",  "F",  40, 29,  10, 30, 2),
      P("DEF", "F",  40, 29,  30, 35, 2),
      P("MID", "G",  50, 44,  45, 55, 4),
      P("FWD", "B",  60, 21, 350, 20, 4),
      P("FWD", "G",  70, 55,  10, 40, 3),
      P("FWD", "G",  60, 50,  10, 35, 3)>>

Core == 1..14
Extras == 15..20

\* The deep goalkeeper bank: BankJunk cheap ones, one good-value keeper, and
\* BankPremium expensive ones, all of club H.
BankFirst == Len(Roster) + 1
BankValue == BankFirst + BankJunk
BankIds == BankFirst..(BankValue + BankPremium)

BankRow(i) ==
    IF i < BankValue THEN P("GK", "H", 40, i - BankFirst + 1, 10, 20, 3)
    ELSE IF i = BankValue THEN P("GK", "H", 45, BankJunk + 5, 100, 30, 3)
    ELSE P("GK", "H", 55, BankJunk + 5 + (i - BankValue), 400, 40, 3)

\* The goalkeeper label of the data provider is "GKP" (FPLClient.get_players_df);
\* the optimizers ask for "GKP" or for "GK".
GkLabels == {"GKP", "GK"}

Relabel(row, gk) ==
    IF row.position = "GK" THEN [row EXCEPT !.position = gk] ELSE row

SmallPool(X, gk) == [i \in Core \cup X |-> Relabel(Roster[i], gk)]

DeepPool(gk) ==
    [i \in (3..14) \cup {17} \cup BankIds |->
        Relabel(IF i \in BankIds THEN BankRow(i) ELSE Roster[i], gk)]

\* Pools around the thresholds of stage 2: a candidate at exactly 1.05 times
\* the worst forward (21 against 16), a candidate that only becomes affordable
\* after a later swap (22), two affordable candidates (15 and 23), and a
\* better differential in each of the four positions (23, 20, 19, 18)
ThresholdExtras ==
    {{16, 18, 21}, {17, 18, 22}, {15, 17, 23}, {17, 18, 19, 20, 23}}

\* Pools in which every player has a score of exactly 0
ZeroScoreExtras == {{16}, {17}, {17, 18}}

ZeroScorePool(X, gk) ==
    [i \in Core \cup X |-> [Relabel(Roster[i], gk) EXCEPT !.score = 0]]

Pools ==
    {SmallPool(X, gk) : X \in SUBSET Extras, gk \in GkLabels}
    \cup {SmallPool(X, gk) : X \in ThresholdExtras, gk \in GkLabels}
    \cup {ZeroScorePool(X, gk) : X \in ZeroScoreExtras, gk \in GkLabels}
    \cup {DeepPool(gk) : gk \in GkLabels}

-----------------------------------------------------------------------------
(* The integer program shared by the three scripts                         *)

RECURSIVE PickByPosition(_, _, _)
\* The selections that satisfy every position constraint
\*   lpSum(player_vars of the position) == count
\* and take nobody else (the squad-size constraint, the counts adding up to 15)
PickByPosition(df, quota, labels) ==
    IF labels = {} THEN {{}}
    ELSE LET p == CHOOSE q \in labels : TRUE
         IN {a \cup b : a \in KSub(PosIds(df, p), quota[p]),
                        b \in PickByPosition(df, quota, labels \ {p})}

WithinBudget(df, S, bud) == SumOf(Prices(df), S) <= bud

\* Mutant of ClubCapOk: the cap is off by one (<= 4)
Mut_ClubCapOffByOne(df, S) ==
    \A t \in Teams(df) : Cardinality(S \cap TeamIds(df, t)) <= MaxPerClub + 1

ClubCapOk(df, S) ==
    \A t \in Teams(df) : Cardinality(S \cap TeamIds(df, t)) <= MaxPerClub

\* The feasible region: squad size, budget, position counts, club cap
FeasibleSquads(df, quota, bud) ==
    {S \in PickByPosition(df, quota, DOMAIN quota) :
        /\ Cardinality(S) = SquadSize
        /\ WithinBudget(df, S, bud)
        /\ ClubCapOk(df, S)}

\* Mutant of Optima: the solver stops at any feasible selection
Mut_AnyFeasible(F, coef) == F

\* The members of F with the largest objective value, coef the coefficients
Optima(F, coef) ==
    LET obj == [S \in F |-> SumOf(coef, S)]
    IN {S \in F : \A T \in F : obj[T] <= obj[S]}

\* LpStatus after prob.solve() on a feasible region F
LpStatusOf(F) == IF F = {} THEN "Infeasible" ELSE "Optimal"

-----------------------------------------------------------------------------
(* WildcardTeamBuilder *)

\* Is j before i when S is ordered by key ascending, ties in index order
Before(key, j, i) == key[j] < key[i] \/ (key[j] = key[i] /\ j < i)

\* S.nsmallest(n, key): keep='first'
NSmallest(S, n, key) ==
    {i \in S : Cardinality({j \in S : Before(key, j, i)}) < n}

\* S.nlargest(n, key): keep='first'
NLargest(S, n, key) ==
    {i \in S : Cardinality({j \in S : key[j] > key[i]
                                       \/ (key[j] = key[i] /\ j < i)}) < n}

\* The k-th smallest value (k from 0) of key over S
KthValue(S, k, key) ==
    key[CHOOSE i \in S : Cardinality({j \in S : Before(key, j, i)}) = k]

\* Ten times S[key].quantile(tenths / 10), linear interpolation
Quantile10(S, tenths, key) ==
    LET h  == tenths * (Cardinality(S) - 1)
        lo == h \div 10
        r  == h % 10
        a  == KthValue(S, lo, key)
    IN IF r = 0 THEN 10 * a
       ELSE 10 * a + r * (KthValue(S, lo + 1, key) - a)

\* Minimum possible team cost: the cheapest `required` players of each position
MinCost(df) ==
    LET cost == [p \in DOMAIN squad_requirements |->
                    SumOf(Prices(df),
                          NSmallest(PosIds(df, p), squad_requirements[p], Prices(df)))]
    IN SumOf(cost, DOMAIN squad_requirements)

\* Mutant of check_squad_viability: a minimum cost equal to the budget fails
Mut_ViabilityStrict(df) ==
    /\ \A p \in DOMAIN squad_requirements :
            Cardinality(PosIds(df, p)) >= squad_requirements[p]
    /\ ~(MinCost(df) >= DefaultBudget)

check_squad_viability(df) ==
    /\ \A p \in DOMAIN squad_requirements :
            Cardinality(PosIds(df, p)) >= squad_requirements[p]
    /\ ~(MinCost(df) > DefaultBudget)

\* Mutant of KeptOfPosition: only the top scorers are kept
Mut_KeptTopScorersOnly(df, position) ==
    NLargest(PosIds(df, position), TopScorers, Scores(df))

\* Players kept for one position: top scorers, cheap options, mid-price scorers
KeptOfPosition(df, position) ==
    LET pos == PosIds(df, position)
        pr  == Prices(df)
        sc  == Scores(df)
        mid == IF pos = {} THEN {}
               ELSE {i \in pos : /\ 10 * pr[i] >= Quantile10(pos, 3, pr)
                                 /\ 10 * pr[i] <= Quantile10(pos, 7, pr)}
    IN NLargest(pos, TopScorers, sc)
       \cup NSmallest(pos, CheapOptions, pr)
       \cup NLargest(mid, MidPriceOptions, sc)

\* Index of players_df after "Filter to reasonable players"
ReducePool(df) == UNION {KeptOfPosition(df, p) : p \in Range(RequirementOrder)}

Restrict(df, S) == [i \in S |-> df[i]]

\* Mutant of WildcardRegion: the club constraints are missing
Mut_RegionNoClubCap(df, kept) ==
    {S \in PickByPosition(Restrict(df, kept), squad_requirements,
                          DOMAIN squad_requirements) :
        /\ Cardinality(S) = SquadSize
        /\ WithinBudget(Restrict(df, kept), S, DefaultBudget)}

\* Feasible region of the FPL_Wildcard problem built on the reduced pool
WildcardRegion(df, kept) ==
    FeasibleSquads(Restrict(df, kept), squad_requirements, DefaultBudget)

-----------------------------------------------------------------------------
(* Runs *)

NoBB == [selected |-> <<>>, remaining |-> 0, posIdx |-> 0, visited |-> {},
         count |-> 0, called |-> FALSE]
NoS2 == [posIdx |-> 0, swaps |-> 0]

Init ==
    /\ prog \in {"wtb", "rto", "ewo"}
    /\ mini \in (IF prog = "ewo" THEN BOOLEAN ELSE {FALSE})
    /\ players \in Pools
    /\ pc = "start"
    /\ viable = "unset"
    /\ reduced = {}
    /\ status = "unset"
    /\ nSolves = 0
    /\ team = <<>>
    /\ ret = "unset"
    /\ bb = NoBB
    /\ s2 = NoS2
    /\ outcome = "unset"

\* Mutant of WtbCheckViability: the early return on failure is missing
Mut_ViabilityNoReturn ==
    /\ prog = "wtb" /\ pc = "start"
    /\ viable' = IF check_squad_viability(players) THEN "pass" ELSE "fail"
    /\ pc' = "reduce"
    /\ UNCHANGED <<prog, mini, players, reduced, status, nSolves, team, ret, bb,
                   s2, outcome>>

\* optimize_team_selection: "First check viability"
WtbCheckViability ==
    /\ prog = "wtb" /\ pc = "start"
    /\ IF check_squad_viability(players)
       THEN /\ viable' = "pass"
            /\ pc' = "reduce"
            /\ ret' = ret
       ELSE /\ viable' = "fail"
            /\ pc' = "selected"
            /\ ret' = "empty"
    /\ UNCHANGED <<prog, mini, players, reduced, status, nSolves, team, bb, s2,
                   outcome>>

\* optimize_team_selection: "Filter to reasonable players to reduce problem size"
WtbReducePool ==
    /\ prog = "wtb" /\ pc = "reduce"
    /\ reduced' = ReducePool(players)
    /\ pc' = "solve"
    /\ UNCHANGED <<prog, mini, players, viable, status, nSolves, team, ret, bb,
                   s2, outcome>>

\* optimize_team_selection: build the problem, solve, extract or fall back
WtbSolve ==
    /\ prog = "wtb" /\ pc = "solve"
    /\ LET F == WildcardRegion(players, reduced)
       IN /\ status' = LpStatusOf(F)
          /\ nSolves' = nSolves + 1
          /\ IF LpStatusOf(F) # "Optimal"
             THEN /\ pc' = "budget_team"
                  /\ bb' = [selected |-> <<>>, remaining |-> DefaultBudget,
                            posIdx |-> 1, visited |-> {}, count |-> 0,
                            called |-> TRUE]
                  /\ UNCHANGED <<team, ret>>
             ELSE /\ \E S \in Optima(F, Scores(players)) :
                        team' = InIndexOrder(S)
                  /\ ret' = "team"
                  /\ pc' = "selected"
                  /\ bb' = bb
    /\ UNCHANGED <<prog, mini, players, viable, reduced, s2, outcome>>

\* players_df of build_budget_team: the reduced pool it is called with
BudgetPool == Restrict(players, reduced)

\* sum(self.squad_requirements.values())
RequiredTotal == SumOf(squad_requirements, DOMAIN squad_requirements)

\* value_score of i >= value_score of j, value_score = wildcard_score / (price + 1)
ValueAtLeast(df, i, j) ==
    df[i].score * (df[j].price + 10) >= df[j].score * (df[i].price + 10)

\* Rows of the current position not yet reached by the iteration
BbPending(b) ==
    (PosIds(BudgetPool, RequirementOrder[b.posIdx]) \ Range(b.selected))
        \ b.visited

\* "Check team limit": the club already has three of the selected players
BbTeamLimit(df, selected, idx) ==
    Cardinality({p \in Range(selected) : df[p].team = df[idx].team}) >= MaxPerClub

\* "Check budget": the money left per remaining place falls under 4.0
BbBudgetSkip(selected, remaining_after) ==
    LET positions_left == RequiredTotal - Len(selected) - 1
    IN positions_left > 0 /\ remaining_after < MinViablePrice * positions_left

\* build_budget_team: one iteration of "for idx, player in pos_players.iterrows()"
\* that does not break; rows come in descending value_score, ties in any order
BbIterate ==
    /\ prog = "wtb" /\ pc = "budget_team"
    /\ bb.posIdx <= Len(RequirementOrder)
    /\ bb.count < squad_requirements[RequirementOrder[bb.posIdx]]
    /\ \E idx \in BbPending(bb) :
        /\ \A j \in BbPending(bb) : ValueAtLeast(BudgetPool, idx, j)
        /\ LET remaining_after == bb.remaining - BudgetPool[idx].price
           IN IF \/ BbTeamLimit(BudgetPool, bb.selected, idx)
                 \/ BbBudgetSkip(bb.selected, remaining_after)
              THEN bb' = [bb EXCEPT !.visited = @ \cup {idx}]
              ELSE bb' = [bb EXCEPT !.visited = @ \cup {idx},
                                    !.selected = Append(@, idx),
                                    !.remaining = remaining_after,
                                    !.count = @ + 1]
    /\ UNCHANGED <<prog, mini, players, pc, viable, reduced, status, nSolves,
                   team, ret, s2, outcome>>

\* build_budget_team: the inner loop breaks or runs out; next position
BbNextPosition ==
    /\ prog = "wtb" /\ pc = "budget_team"
    /\ bb.posIdx <= Len(RequirementOrder)
    /\ \/ bb.count >= squad_requirements[RequirementOrder[bb.posIdx]]
       \/ BbPending(bb) = {}
    /\ bb' = [bb EXCEPT !.posIdx = @ + 1, !.visited = {}, !.count = 0]
    /\ UNCHANGED <<prog, mini, players, pc, viable, reduced, status, nSolves,
                   team, ret, s2, outcome>>

\* build_budget_team: "if len(selected_team) == 15" ... return
BbReturn ==
    /\ prog = "wtb" /\ pc = "budget_team"
    /\ bb.posIdx > Len(RequirementOrder)
    /\ IF Len(bb.selected) = SquadSize
       THEN team' = bb.selected /\ ret' = "team"
       ELSE team' = <<>> /\ ret' = "empty"
    /\ pc' = "selected"
    /\ UNCHANGED <<prog, mini, players, viable, reduced, status, nSolves, bb,
                   s2, outcome>>

\* The formations tried by suggest_starting_11, in order
Formations ==
    <<("DEF" :> 3) @@ ("MID" :> 5) @@ ("FWD" :> 2),
      ("DEF" :> 3) @@ ("MID" :> 4) @@ ("FWD" :> 3),
      ("DEF" :> 4) @@ ("MID" :> 4) @@ ("FWD" :> 2),
      ("DEF" :> 4) @@ ("MID" :> 3) @@ ("FWD" :> 3),
      ("DEF" :> 5) @@ ("MID" :> 3) @@ ("FWD" :> 2)>>

\* The rows suggest_starting_11 takes for one formation: head(1) of the
\* goalkeepers and head(pos_count) of each outfield position, by score
LineupOf(df, formation) ==
    NLargest(PosIds(df, "GKP"), 1, Scores(df))
    \cup UNION {NLargest(PosIds(df, p), formation[p], Scores(df)) :
                    p \in DOMAIN formation}

\* suggest_starting_11 returns a lineup (not None): some formation fills 11
\* places with a lineup_score above the initial best_score of 0
LineupFound(df) ==
    \E k \in DOMAIN Formations :
        /\ Cardinality(LineupOf(df, Formations[k])) = 11
        /\ SumOf(Scores(df), LineupOf(df, Formations[k])) > 0

\* run_complete_wildcard_analysis after optimize_team_selection returned
WtbReport ==
    /\ prog = "wtb" /\ pc = "selected"
    /\ outcome' = IF ret = "empty" THEN "None"
                  ELSE IF ~LineupFound(Restrict(players, Range(team))) THEN "None"
                  ELSE "team"
    /\ pc' = "done"
    /\ UNCHANGED <<prog, mini, players, viable, reduced, status, nSolves, team,
                   ret, bb, s2>>

-----------------------------------------------------------------------------
(* RealisticTeamOptimizer *)

\* Mutant of FlooredScores: the cleaning drops the rows without a positive
\* score instead of raising them to the minimum
Mut_CleanDropsZeroScores(df) ==
    [i \in {j \in DOMAIN df : df[j].score > 0} |->
        [df[i] EXCEPT !.score = Max(@, ScoreFloor)]]

\* Mutant of FlooredScores: the minimum is set one step too high (0.15)
Mut_FloorAboveMinimum(df) ==
    [i \in DOMAIN df |-> [df[i] EXCEPT !.score = Max(@, ScoreFloor + 1)]]

\* players_clean: "Set minimum score to avoid optimization issues"
FlooredScores(df) ==
    [i \in DOMAIN df |-> [df[i] EXCEPT !.score = Max(@, ScoreFloor)]]

\* Feasible region of the FPL_Viable_Team problem
ViableRegion(df) == FeasibleSquads(df, formation_constraints, DefaultBudget)

\* Mutant of RtoStage1: a pool of exactly 15 players is rejected (<= 15)
Mut_Stage1RejectsFifteen ==
    /\ prog = "rto" /\ pc = "start"
    /\ LET clean == FlooredScores(players)
           F == ViableRegion(clean)
       IN IF Cardinality(DOMAIN clean) <= SquadSize
          THEN /\ ret' = "None"
               /\ UNCHANGED <<status, nSolves, team>>
          ELSE /\ status' = LpStatusOf(F)
               /\ nSolves' = nSolves + 1
               /\ IF LpStatusOf(F) # "Optimal"
                  THEN ret' = "None" /\ team' = team
                  ELSE /\ \E S \in Optima(F, Scores(clean)) :
                            team' = InIndexOrder(S)
                       /\ ret' = "team"
    /\ pc' = "stage1_done"
    /\ UNCHANGED <<prog, mini, players, viable, reduced, bb, s2, outcome>>

\* stage1_build_viable_team, from the cleaning to the return
RtoStage1 ==
    /\ prog = "rto" /\ pc = "start"
    /\ LET clean == FlooredScores(players)
           F == ViableRegion(clean)
       IN IF Cardinality(DOMAIN clean) < SquadSize
          THEN /\ ret' = "None"
               /\ UNCHANGED <<status, nSolves, team>>
          ELSE /\ status' = LpStatusOf(F)
               /\ nSolves' = nSolves + 1
               /\ IF LpStatusOf(F) # "Optimal"
                  THEN ret' = "None" /\ team' = team
                  ELSE /\ \E S \in Optima(F, Scores(clean)) :
                            team' = InIndexOrder(S)
                       /\ ret' = "team"
    /\ pc' = "stage1_done"
    /\ UNCHANGED <<prog, mini, players, viable, reduced, bb, s2, outcome>>

\* Mutant of RtoAfterStage1: the "is None" check is missing
Mut_AfterStage1NoCheck ==
    /\ prog = "rto" /\ pc = "stage1_done"
    /\ pc' = "stage2"
    /\ s2' = [posIdx |-> 1, swaps |-> 0]
    /\ UNCHANGED <<prog, mini, players, viable, reduced, status, nSolves, team,
                   ret, bb, outcome>>

\* run_realistic_optimization: "if stage1_team is None" ... else go on to stage 2
RtoAfterStage1 ==
    /\ prog = "rto" /\ pc = "stage1_done"
    /\ IF ret = "None"
       THEN /\ outcome' = "None"
            /\ pc' = "done"
            /\ s2' = s2
       ELSE /\ outcome' = outcome
            /\ pc' = "stage2"
            /\ s2' = [posIdx |-> 1, swaps |-> 0]
    /\ UNCHANGED <<prog, mini, players, viable, reduced, status, nSolves, team,
                   ret, bb>>

\* Mutant of Stage2Order: the positions are visited in the opposite order
Mut_Stage2OrderReversed == <<"GK", "DEF", "MID", "FWD">>

\* Priority order for swaps
Stage2Order == <<"FWD", "MID", "DEF", "GK">>

\* get_ownership_multiplier, times 100
get_ownership_multiplier(ownership_pct) ==
    IF ownership_pct < 50 THEN 115
    ELSE IF ownership_pct < 150 THEN 108
    ELSE IF ownership_pct < 300 THEN 100
    ELSE 95

\* differential_score, times 100
DifferentialScore(row) ==
    row.score * get_ownership_multiplier(row.selected_by_percent)

\* sum of the price column of a team
TeamPrice(df, t) ==
    SumOf([k \in DOMAIN t |-> df[t[k]].price], DOMAIN t)

\* current_pos_players: the rows of the team in the position, in row order
CurrentPosPlayers(df, t, position) ==
    SelectSeq(t, LAMBDA i : df[i].position = position)

\* Mutant of AvailablePosPlayers: squad members are not excluded
Mut_AvailableAnyId(df, t, position) == PosIds(df, position)

\* available_pos_players: same position and id not in the team
AvailablePosPlayers(df, t, position) ==
    {i \in PosIds(df, position) : i \notin Range(t)}

\* .loc[differential_score.idxmin()]: the first row with the lowest score
WorstCurrent(df, cur) ==
    cur[CHOOSE k \in DOMAIN cur :
            /\ \A j \in DOMAIN cur :
                    DifferentialScore(df[cur[k]]) <= DifferentialScore(df[cur[j]])
            /\ \A j \in 1..(k - 1) :
                    DifferentialScore(df[cur[j]]) > DifferentialScore(df[cur[k]])]

\* Mutant of AffordableReplacements: the price filter is missing
Mut_AffordableNoFilter(df, t, avail, worst) == avail

\* affordable_replacements
AffordableReplacements(df, t, avail, worst) ==
    LET budget_available == DefaultBudget - (TeamPrice(df, t) - df[worst].price)
    IN {i \in avail : df[i].price <= budget_available}

\* Mutant of BestReplacement: idxmin instead of idxmax
Mut_BestLowestScore(df, aff) ==
    CHOOSE i \in aff :
        \A j \in aff : \/ DifferentialScore(df[j]) > DifferentialScore(df[i])
                       \/ (DifferentialScore(df[j]) = DifferentialScore(df[i])
                           /\ i <= j)

\* .loc[differential_score.idxmax()]: the first row with the highest score
BestReplacement(df, aff) ==
    CHOOSE i \in aff :
        \A j \in aff : \/ DifferentialScore(df[j]) < DifferentialScore(df[i])
                       \/ (DifferentialScore(df[j]) = DifferentialScore(df[i])
                           /\ i <= j)

\* Mutant of SignificantImprovement: best >= worst * 1.05
Mut_ImprovementOrEqual(df, best, worst) ==
    100 * DifferentialScore(df[best]) >= 105 * DifferentialScore(df[worst])

\* Mutant of SignificantImprovement: best > worst, no 5% margin
Mut_AnyImprovement(df, best, worst) ==
    DifferentialScore(df[best]) > DifferentialScore(df[worst])

\* Mutant of SignificantImprovement: a replacement that is not worse is taken
Mut_NotWorse(df, best, worst) ==
    DifferentialScore(df[best]) >= DifferentialScore(df[worst])

\* "Only swap if significant improvement": best > worst * 1.05
SignificantImprovement(df, best, worst) ==
    100 * DifferentialScore(df[best]) > 105 * DifferentialScore(df[worst])

\* "Remove worst player and add best replacement"
SwapRows(df, t, worst, best) ==
    SelectSeq(t, LAMBDA i : i # worst)
        \o InIndexOrder({i \in DOMAIN df : i = best})

\* Mutant of Stage2Body: a swap is skipped when the club of the replacement
\* already has three of the other squad members
Mut_Stage2BodyClubCap(df, t, position) ==
    LET cur   == CurrentPosPlayers(df, t, position)
        avail == AvailablePosPlayers(df, t, position)
    IN IF Len(cur) = 0 \/ avail = {} THEN t
       ELSE LET worst == WorstCurrent(df, cur)
                aff   == AffordableReplacements(df, t, avail, worst)
            IN IF aff = {} THEN t
               ELSE LET best == BestReplacement(df, aff)
                    IN IF /\ SignificantImprovement(df, best, worst)
                          /\ Cardinality({i \in Range(t) \ {worst} :
                                            df[i].team = df[best].team})
                                < MaxPerClub
                       THEN SwapRows(df, t, worst, best)
                       ELSE t

\* The team after one pass of the loop body for `position`
Stage2Body(df, t, position) ==
    LET cur   == CurrentPosPlayers(df, t, position)
        avail == AvailablePosPlayers(df, t, position)
    IN IF Len(cur) = 0 \/ avail = {} THEN t
       ELSE LET worst == WorstCurrent(df, cur)
                aff   == AffordableReplacements(df, t, avail, worst)
            IN IF aff = {} THEN t
               ELSE LET best == BestReplacement(df, aff)
                    IN IF SignificantImprovement(df, best, worst)
                       THEN SwapRows(df, t, worst, best)
                       ELSE t

\* Mutant of Stage2Position: the "swaps_made >= max_swaps" break is missing
Mut_Stage2NoBreak ==
    /\ prog = "rto" /\ pc = "stage2"
    /\ s2.posIdx <= Len(Stage2Order)
    /\ team' = Stage2Body(players, team, Stage2Order[s2.posIdx])
    /\ s2' = [posIdx |-> s2.posIdx + 1,
              swaps |-> IF team' # team THEN s2.swaps + 1 ELSE s2.swaps]
    /\ UNCHANGED <<prog, mini, players, pc, viable, reduced, status, nSolves,
                   ret, bb, outcome>>

\* stage2_apply_differential_optimization: one iteration of the position loop
Stage2Position ==
    /\ prog = "rto" /\ pc = "stage2"
    /\ s2.posIdx <= Len(Stage2Order)
    /\ s2.swaps < MaxSwaps
    /\ team' = Stage2Body(players, team, Stage2Order[s2.posIdx])
    /\ s2' = [posIdx |-> s2.posIdx + 1,
              swaps |-> IF team' # team THEN s2.swaps + 1 ELSE s2.swaps]
    /\ UNCHANGED <<prog, mini, players, pc, viable, reduced, status, nSolves,
                   ret, bb, outcome>>

\* stage2_apply_differential_optimization: the loop ends (break or exhausted);
\* run_realistic_optimization displays and returns the team
Stage2Return ==
    /\ prog = "rto" /\ pc = "stage2"
    /\ s2.posIdx > Len(Stage2Order) \/ s2.swaps >= MaxSwaps
    /\ outcome' = "team"
    /\ pc' = "done"
    /\ UNCHANGED <<prog, mini, players, viable, reduced, status, nSolves, team,
                   ret, bb, s2>>

-----------------------------------------------------------------------------
(* EnhancedWildcardOptimizer *)

\* total_score of a player in the objective, times 20
EnhancedObjective(df, m) ==
    [i \in DOMAIN df |->
        df[i].score
        + 10 * df[i].fixture_adjusted_ep
        + (IF m THEN 1000 - df[i].selected_by_percent ELSE 0)
        + 200 * (4 - df[i].fixture_difficulty)]

MinDifferentials == 4
MaxTemplates == 6

\* Mutant of MiniLeagueOk: the limit on template picks is missing
Mut_MiniNoTemplateLimit(df, S) ==
    Cardinality({i \in S : df[i].selected_by_percent < 150}) >= MinDifferentials

\* MINI-LEAGUE SPECIFIC CONSTRAINTS
MiniLeagueOk(df, S) ==
    /\ Cardinality({i \in S : df[i].selected_by_percent < 150}) >= MinDifferentials
    /\ Cardinality({i \in S : df[i].selected_by_percent > 300}) <= MaxTemplates

\* Feasible region of the FPL_Enhanced_Wildcard problem
EnhancedRegion(df, m) ==
    {S \in FeasibleSquads(df, formation_constraints, DefaultBudget) :
        m => MiniLeagueOk(df, S)}

\* Mutant of FallbackRegion: the fallback also drops the club constraints
Mut_FallbackNoClubCap(df) ==
    {S \in PickByPosition(df, formation_constraints, DOMAIN formation_constraints) :
        Cardinality(S) = SquadSize /\ WithinBudget(df, S, DefaultBudget)}

\* Feasible region of the FPL_Fallback problem
FallbackRegion(df) == FeasibleSquads(df, formation_constraints, DefaultBudget)

\* The variables whose value is 1 after a solve that did not end Optimal:
\* whatever the solver left, here any selection of at most MaxResidual rows
ResidualSelections(df) == UNION {KSub(DOMAIN df, k) : k \in 0..MaxResidual}

\* build_optimal_team up to its return or its call of _fallback_optimization
EwoBuild ==
    /\ prog = "ewo" /\ pc = "start"
    /\ LET clean == FlooredScores(players)
           F == EnhancedRegion(clean, mini)
       IN IF Cardinality(DOMAIN clean) < SquadSize
          THEN /\ ret' = "None"
               /\ pc' = "built"
               /\ UNCHANGED <<status, nSolves, team>>
          ELSE /\ status' = LpStatusOf(F)
               /\ nSolves' = nSolves + 1
               /\ IF LpStatusOf(F) = "Optimal"
                  THEN /\ \E S \in Optima(F, EnhancedObjective(clean, mini)) :
                            team' = InIndexOrder(S)
                       /\ ret' = "team"
                       /\ pc' = "built"
                  ELSE IF mini
                  THEN /\ pc' = "fallback"
                       /\ UNCHANGED <<team, ret>>
                  ELSE /\ \E S \in ResidualSelections(clean) :
                            team' = InIndexOrder(S)
                       /\ ret' = "team"
                       /\ pc' = "built"
    /\ UNCHANGED <<prog, mini, players, viable, reduced, bb, s2, outcome>>

\* _fallback_optimization
EwoFallback ==
    /\ prog = "ewo" /\ pc = "fallback"
    /\ LET clean == FlooredScores(players)
           F == FallbackRegion(clean)
       IN /\ status' = LpStatusOf(F)
          /\ nSolves' = nSolves + 1
          /\ IF LpStatusOf(F) = "Optimal"
             THEN /\ \E S \in Optima(F, Scores(clean)) : team' = InIndexOrder(S)
                  /\ ret' = "team"
             ELSE /\ ret' = "None"
                  /\ team' = team
    /\ pc' = "built"
    /\ UNCHANGED <<prog, mini, players, viable, reduced, bb, s2, outcome>>

\* run_enhanced_optimization after build_optimal_team returned
EwoReturn ==
    /\ prog = "ewo" /\ pc = "built"
    /\ outcome' = IF ret = "None" THEN "None" ELSE "team"
    /\ pc' = "done"
    /\ UNCHANGED <<prog, mini, players, viable, reduced, status, nSolves, team,
                   ret, bb, s2>>

Next ==
    \/ RtoStage1
    \/ RtoAfterStage1
    \/ Stage2Position
    \/ Stage2Return
    \/ EwoBuild
    \/ EwoFallback
    \/ EwoReturn
    \/ WtbCheckViability
    \/ WtbReducePool
    \/ WtbSolve
    \/ BbIterate
    \/ BbNextPosition
    \/ BbReturn
    \/ WtbReport

Spec == Init /\ [][Next]_vars

-----------------------------------------------------------------------------
(* Properties *)

NoDuplicates(t) == \A i, j \in DOMAIN t : i # j => t[i] # t[j]

CountInPosition(df, t, position) ==
    Cardinality({k \in DOMAIN t : df[t[k]].position = position})

CountInClub(df, t, team_id) ==
    Cardinality({k \in DOMAIN t : df[t[k]].team = team_id})

\* The squad invariant: size, distinct players, budget, quotas, club cap
SquadInvariant(df, t, quota) ==
    /\ Len(t) = 15
    /\ NoDuplicates(t)
    /\ TeamPrice(df, t) <= DefaultBudget
    /\ \A p \in DOMAIN quota : CountInPosition(df, t, p) = quota[p]
    /\ \A c \in Teams(df) : CountInClub(df, t, c) <= 3

WtbSelected == prog = "wtb" /\ pc \in {"selected", "done"}

\* C1: every non-empty squad returned by optimize_team_selection, from the
\* Optimal solve or from build_budget_team, has 15 distinct players, costs at
\* most the budget, has 2 GKP / 5 DEF / 5 MID / 3 FWD and at most 3 per club.
C1_ReturnedSquadSatisfiesInvariant ==
    (WtbSelected /\ ret = "team")
        => SquadInvariant(players, team, squad_requirements)

\* C2: a squad returned by stage1_build_viable_team has 15 distinct players,
\* costs at most 100.0, has 2 GK / 5 DEF / 5 MID / 3 FWD and at most 3 per club.
C2_Stage1SquadSatisfiesInvariant ==
    (prog = "rto" /\ pc # "start" /\ ret = "team" /\ s2.swaps = 0)
        => SquadInvariant(players, team, formation_constraints)

C2_Witness ==
    /\ prog = "rto" /\ pc = "stage1_done" /\ ret = "team"
    /\ Cardinality(DOMAIN players) > 15

\* C3: a squad returned from an Optimal solve has the highest total
\* wildcard_score of all squads of the pool passed in (before the reduction)
\* that satisfy budget, size, quotas and club cap.
C3_OptimalOverFullPool ==
    (WtbSelected /\ ret = "team" /\ status = "Optimal")
        => \A S \in FeasibleSquads(players, squad_requirements, DefaultBudget) :
                SumOf(Scores(players), S) <= SumOf(Scores(players), Range(team))

\* C4: when the solve of optimize_team_selection does not end Optimal, no
\* squad is returned and run_complete_wildcard_analysis reports failure.
C4_NotOptimalReturnsNoSquad ==
    (WtbSelected /\ status \notin {"unset", "Optimal"})
        => /\ ret = "empty"
           /\ pc = "done" => outcome = "None"

EwoBuilt == prog = "ewo" /\ pc \in {"built", "done"}

\* C5: build_optimal_team returns a team only if its last solve ended Optimal,
\* and None otherwise, in mini-league mode and outside it.
C5_TeamOnlyFromOptimalSolve ==
    EwoBuilt => IF status = "Optimal" THEN ret = "team" ELSE ret = "None"

\* C6: when the stage 1 solve is not Optimal, stage1_build_viable_team returns
\* None and run_realistic_optimization returns None: stage 2 never starts and
\* no team is displayed.
C6_Stage1NotOptimalStopsRun ==
    (prog = "rto" /\ status \notin {"unset", "Optimal"})
        => /\ ret = "None"
           /\ pc \in {"stage1_done", "done"}
           /\ s2 = NoS2
           /\ outcome # "team"
           /\ pc = "done" => outcome = "None"

C6_Witness ==
    /\ prog = "rto" /\ status = "Infeasible" /\ pc = "done" /\ outcome = "None"
    /\ Cardinality(DOMAIN players) >= 15

\* The least total price of `required` players of a position, over all choices
LeastCost(df, position) ==
    LET sums == {SumOf(Prices(df), T) :
                    T \in KSub(PosIds(df, position), squad_requirements[position])}
    IN CHOOSE m \in sums : \A n \in sums : m <= n

ShortPosition(df) ==
    \E p \in DOMAIN squad_requirements :
        Cardinality(PosIds(df, p)) < squad_requirements[p]

CheapestSquadCost(df) ==
    SumOf([p \in DOMAIN squad_requirements |-> LeastCost(df, p)],
          DOMAIN squad_requirements)

\* C7: check_squad_viability fails exactly when a position has fewer
\* candidates than its requirement or the cheapest squad costs strictly more
\* than the budget; a cheapest squad costing exactly the budget passes.
C7_ViabilityFailsIff ==
    (prog = "wtb" /\ viable # "unset")
        => (viable = "fail"
                <=> (ShortPosition(players)
                      \/ CheapestSquadCost(players) > DefaultBudget))

C7_Witness ==
    /\ prog = "wtb" /\ viable = "pass"
    /\ CheapestSquadCost(players) = DefaultBudget

\* C8: when check_squad_viability fails, optimize_team_selection returns an
\* empty result; the pool is never reduced, no problem is solved and
\* build_budget_team is never called.
C8_ViabilityFailureSkipsSolver ==
    (prog = "wtb" /\ viable = "fail")
        => /\ pc \in {"selected", "done"}
           /\ ret = "empty"
           /\ reduced = {}
           /\ nSolves = 0 /\ status = "unset"
           /\ ~bb.called

C8_Witness ==
    /\ prog = "wtb" /\ viable = "fail" /\ pc = "done"
    /\ ~ShortPosition(players)

\* One member out, one non-member of the same position in
OneForOne(df, t, u) ==
    \E k \in DOMAIN t : \E new \in DOMAIN df \ Range(t) :
        /\ df[new].position = df[t[k]].position
        /\ Range(u) = (Range(t) \ {t[k]}) \cup {new}

\* C9: stage 2 keeps the squad size, the count of every position and the
\* absence of duplicate ids; every swap takes out exactly one member and
\* brings in exactly one player of the same position who was not in the squad.
C9_Stage2KeepsShape ==
    [][(prog = "rto" /\ pc = "stage2" /\ team' # team)
        => /\ Len(team') = Len(team)
           /\ NoDuplicates(team')
           /\ \A p \in DOMAIN formation_constraints :
                CountInPosition(players, team', p)
                    = CountInPosition(players, team, p)
           /\ OneForOne(players, team, team')]_vars

C9_Witness == prog = "rto" /\ pc = "stage2" /\ s2.swaps >= 2

\* C10: after every swap of stage 2 the squad costs at most the budget; the
\* player brought in costs at most budget - (squad total - price of the player
\* taken out).
C10_Stage2WithinBudget ==
    [][(prog = "rto" /\ pc = "stage2" /\ team' # team)
        => /\ TeamPrice(players, team') <= DefaultBudget
           /\ \A out \in Range(team) \ Range(team') :
              \A new \in Range(team') \ Range(team) :
                players[new].price
                    <= DefaultBudget
                        - (TeamPrice(players, team) - players[out].price)]_vars

C10_Witness ==
    /\ prog = "rto" /\ pc = "stage2" /\ s2.swaps >= 1
    /\ TeamPrice(players, team) <= DefaultBudget

\* The squad members of a position
Members(df, t, position) == {i \in Range(t) : df[i].position = position}

\* The members of a position with the lowest adjusted score
LowestMembers(df, t, position) ==
    {w \in Members(df, t, position) :
        \A m \in Members(df, t, position) :
            DifferentialScore(df[w]) <= DifferentialScore(df[m])}

\* The non-members of the position whose price fits the budget left when
\* `out` is removed from the squad
FittingNonMembers(df, t, position, out) ==
    {c \in PosIds(df, position) \ Range(t) :
        df[c].price <= DefaultBudget - (TeamPrice(df, t) - df[out].price)}

\* Adjusted score of c strictly above 1.05 times that of w
Beats(df, c, w) ==
    100 * DifferentialScore(df[c]) > 105 * DifferentialScore(df[w])

\* The position offers a qualifying swap in squad t
QualifyingSwap(df, t, position) ==
    \E w \in LowestMembers(df, t, position) :
        \E c \in FittingNonMembers(df, t, position, w) : Beats(df, c, w)

Stage2Swap == prog = "rto" /\ pc = "stage2" /\ team' # team

\* C11: one invocation of stage 2 makes at most 3 swaps: the swap count never
\* exceeds 3, every change of the squad is counted, and no swap is made once
\* three have been made.
C11_AtMostThreeSwaps ==
    [][/\ s2'.swaps <= 3
       /\ Stage2Swap => (s2.swaps < 3 /\ s2'.swaps = s2.swaps + 1)]_vars

\* Three swaps made, the loop left before the goalkeepers, who still offer one
C11_Witness ==
    /\ prog = "rto" /\ pc = "done" /\ outcome = "team"
    /\ s2.swaps = 3 /\ s2.posIdx = 4
    /\ QualifyingSwap(players, team, "GK")

\* C12: stage 2 swaps only when the replacement's adjusted score is strictly
\* greater than 1.05 times the removed player's; when no affordable non-member
\* of the position is strictly above 1.05 times the worst member (equality
\* included), the squad is left as it is for that position.
C12_SwapOnlyAboveThreshold ==
    [][(prog = "rto" /\ pc = "stage2" /\ s2'.posIdx = s2.posIdx + 1)
        => /\ \A out \in Range(team) \ Range(team') :
              \A new \in Range(team') \ Range(team) : Beats(players, new, out)
           /\ ~QualifyingSwap(players, team, Stage2Order[s2.posIdx])
                => team' = team]_vars

\* The forwards were visited without a swap although an affordable non-member
\* stands at exactly 1.05 times the worst forward of the squad
C12_Witness ==
    /\ prog = "rto" /\ pc = "stage2" /\ s2.posIdx = 2 /\ s2.swaps = 0
    /\ \E w \in LowestMembers(players, team, "FWD") :
       \E c \in FittingNonMembers(players, team, "FWD", w) :
            100 * DifferentialScore(players[c])
                = 105 * DifferentialScore(players[w])

\* Stage 2 has applied the ownership multiplier to the rows of the pool
MultipliersApplied ==
    prog = "rto" /\ (pc = "stage2" \/ (pc = "done" /\ outcome = "team"))

\* C13: the ownership multiplier is 1.15 below 5%, 1.08 from 5% to 15%, 1.00
\* from 15% to 30% and 0.95 only strictly above 30%; exactly 30% has 1.00.
\* (Ownership in tenths of a percent, multipliers times 100.)
C13_OwnershipMultiplierSteps ==
    MultipliersApplied
        => \A i \in DOMAIN players :
            LET own == players[i].selected_by_percent
                m   == get_ownership_multiplier(own)
            IN /\ own < 50 => m = 115
               /\ (own >= 50 /\ own < 150) => m = 108
               /\ own = 150 => m \in {108, 100}
               /\ (own > 150 /\ own <= 300) => m = 100
               /\ own > 300 => m = 95

\* C14: in every swap of stage 2 the player removed has the lowest adjusted
\* score of the squad members of the position visited, and the player added
\* has the highest adjusted score of the non-members of that position whose
\* price fits the budget left after the removal.
C14_SwapsWorstForBest ==
    [][Stage2Swap
        => \A out \in Range(team) \ Range(team') :
           \A new \in Range(team') \ Range(team) :
            LET position == Stage2Order[s2.posIdx]
                fitting  == FittingNonMembers(players, team, position, out)
            IN /\ out \in LowestMembers(players, team, position)
               /\ new \in fitting
               /\ \A c \in fitting :
                    DifferentialScore(players[c])
                        <= DifferentialScore(players[new])]_vars

\* The forwards were swapped (out for new) while a second affordable forward c
\* that also beat the removed one by 5% was passed over for a better one
C14_Witness ==
    /\ prog = "rto" /\ pc = "stage2" /\ s2.posIdx = 2 /\ s2.swaps = 1
    /\ \E new \in Members(players, team, "FWD") :
       \E out, c \in PosIds(players, "FWD") \ Range(team) :
        /\ c # out
        /\ \A m \in Members(players, team, "FWD") :
                DifferentialScore(players[out]) < DifferentialScore(players[m])
        /\ Beats(players, new, out)
        /\ Beats(players, c, out)
        /\ DifferentialScore(players[c]) < DifferentialScore(players[new])
        /\ players[c].price
                <= DefaultBudget - TeamPrice(players, team) + players[new].price

\* C15: stage 2 does not look at the clubs: whenever the position visited
\* offers a qualifying swap (same position, affordable, above 1.05 times the
\* worst member) the squad is changed, whatever the number of squad members
\* the club of the replacement already has; the squad can end with 4 of a club.
C15_SwapIgnoresClubCap ==
    [][(/\ prog = "rto" /\ pc = "stage2" /\ s2'.posIdx = s2.posIdx + 1
        /\ QualifyingSwap(players, team, Stage2Order[s2.posIdx]))
            => /\ team' # team
               /\ \A new \in Range(team') \ Range(team) :
                    CountInClub(players, team', players[new].team)
                        >= CountInClub(players, team, players[new].team)]_vars

\* The first swap of a squad that left stage 1 brought a fourth player of a club
C15_Witness ==
    /\ prog = "rto" /\ pc = "stage2" /\ s2.swaps = 1 /\ s2.posIdx = 2
    /\ \E c \in Teams(players) : CountInClub(players, team, c) = 4

Stage2Finished == prog = "rto" /\ pc = "done" /\ outcome = "team"

\* C16: when stage 2 finishes with fewer than 3 swaps made, no position of the
\* final squad offers a qualifying swap: the best affordable non-member is
\* never above 1.05 times the worst member of its position.
C16_NoQualifyingSwapLeft ==
    (Stage2Finished /\ s2.swaps < 3)
        => \A position \in Range(Stage2Order) :
                ~QualifyingSwap(players, team, position)

NoQualifyingSwapAnywhere(df, t) ==
    \A position \in Range(Stage2Order) : ~QualifyingSwap(df, t, position)

\* C17: if no position of the input squad offers a qualifying swap, stage 2
\* makes 0 swaps and returns a squad with the same members, as a normal
\* return: from a squad without swaps and without a qualifying swap, every
\* step of stage 2 leaves the squad and the swap count as they are, and the
\* run ends with the team.
C17_NoQualifyingSwapNoChange ==
    [][(/\ prog = "rto" /\ pc = "stage2" /\ s2.swaps = 0
        /\ NoQualifyingSwapAnywhere(players, team))
            => /\ team' = team
               /\ s2'.swaps = 0
               /\ ret' = "team"
               /\ pc' = "done" => outcome' = "team"]_vars

\* Stage 2 has returned the stage 1 squad unchanged for a pool that has
\* non-members, none of whom offers a qualifying swap
C17_Witness ==
    /\ Stage2Finished /\ s2.swaps = 0
    /\ NoQualifyingSwapAnywhere(players, team)
    /\ \E position \in Range(Stage2Order) :
            PosIds(players, position) \ Range(team) # {}

\* The selections of the pool that satisfy the squad invariant
ValidSquads(df, quota) ==
    {S \in PickByPosition(df, quota, DOMAIN quota) :
        SquadInvariant(df, InIndexOrder(S), quota)}

\* C18: in mini-league mode a first solve that is not Optimal is followed by
\* exactly one more solve, that of _fallback_optimization, which keeps budget,
\* size, position quotas and club cap and drops only the differential and
\* template constraints: it is Optimal exactly when some squad satisfies the
\* four kept constraints; its squad is returned if Optimal, None otherwise.
C18_FallbackSolvesOnceMore ==
    (prog = "ewo" /\ mini)
        => /\ nSolves <= 2
           /\ pc = "fallback" => (nSolves = 1 /\ status # "Optimal")
           /\ (EwoBuilt /\ nSolves = 1) => status = "Optimal"
           /\ (EwoBuilt /\ nSolves = 2)
                => /\ status = "Optimal"
                        <=> ValidSquads(players, formation_constraints) # {}
                   /\ IF status = "Optimal"
                      THEN /\ ret = "team"
                           /\ SquadInvariant(players, team, formation_constraints)
                      ELSE ret = "None"

\* The fallback returned a squad that breaks the mini-league constraints
C18_Witness ==
    /\ prog = "ewo" /\ mini /\ EwoBuilt /\ nSolves = 2 /\ ret = "team"
    /\ ~MiniLeagueOk(players, Range(team))

\* C19: passing check_squad_viability does not guarantee a squad: for a pool
\* that passes while no selection of 15 satisfies budget, quotas and club cap
\* together, the solve of optimize_team_selection ends with a status other
\* than Optimal.
C19_ViablePoolCanBeInfeasible ==
    (/\ prog = "wtb" /\ viable = "pass" /\ status # "unset"
     /\ ValidSquads(players, squad_requirements) = {})
        => status # "Optimal"

\* Such a pool: it passed the check, no valid squad exists, the solve failed
C19_Witness ==
    /\ prog = "wtb" /\ viable = "pass" /\ status = "Infeasible"
    /\ check_squad_viability(players)
    /\ ValidSquads(players, squad_requirements) = {}

\* The pool has exactly 15 candidates, who together satisfy the squad invariant
ExactFit(df, quota) ==
    /\ Cardinality(DOMAIN df) = 15
    /\ SquadInvariant(df, InIndexOrder(DOMAIN df), quota)

\* C20: when the pool is exactly 15 candidates that fill the position quotas,
\* fit the budget and respect the club cap, optimize_team_selection and
\* stage1_build_viable_team return exactly those 15.
C20_ExactPoolReturnedWhole ==
    /\ (WtbSelected /\ ExactFit(players, squad_requirements))
            => (ret = "team" /\ Len(team) = 15 /\ Range(team) = DOMAIN players)
    /\ (prog = "rto" /\ pc # "start"
            /\ ExactFit(players, formation_constraints))
            => (ret = "team" /\ Len(team) = 15 /\ Range(team) = DOMAIN players)

\* optimize_team_selection has returned for a pool of exactly 15 that fits
C20_Witness ==
    /\ WtbSelected /\ ExactFit(players, squad_requirements)
    /\ status = "Optimal" /\ Range(team) = DOMAIN players

AllScoresZero(df) == \A i \in DOMAIN df : df[i].score = 0

FlooredTotal(df, S) ==
    SumOf([i \in DOMAIN df |-> Max(df[i].score, ScoreFloor)], S)

\* C22: every solve of stage1_build_viable_team on the same pool has the same
\* objective value: the total floored score of the squad returned is the
\* largest total of any valid squad of the pool, whichever squad is returned;
\* squads returned by different solves differ only at equal total.
C22_SameObjectiveEverySolve ==
    (prog = "rto" /\ pc = "stage1_done" /\ ret = "team")
        => \A S \in ValidSquads(players, formation_constraints) :
                FlooredTotal(players, S) <= FlooredTotal(players, Range(team))

\* Stage 1 returned one of several valid squads of the same total
C22_Witness ==
    /\ prog = "rto" /\ pc = "stage1_done" /\ ret = "team"
    /\ \E S \in ValidSquads(players, formation_constraints) :
        /\ S # Range(team)
        /\ FlooredTotal(players, S) = FlooredTotal(players, Range(team))

\* C23: build_budget_team never returns a squad that costs more than the
\* budget: every non-empty result has a total price of at most self.budget,
\* the price of the fifteenth player included.
C23_BudgetTeamWithinBudget ==
    (WtbSelected /\ bb.called /\ ret = "team")
        => TeamPrice(players, bb.selected) <= DefaultBudget

\* C24: stage 2 examines the positions one after the other in the order FWD,
\* MID, DEF, GK and never goes back: the position index only grows, by one per
\* position examined; a swap changes one player, of the position being
\* examined, and counts as one swap; GK is examined only with fewer than 3
\* swaps made; the loop is left after GK or with 3 swaps.
C24_SinglePassInOrder ==
    [][(prog = "rto" /\ pc = "stage2")
        => /\ s2'.posIdx \in {s2.posIdx, s2.posIdx + 1}
           /\ s2'.posIdx = s2.posIdx => (pc' = "done" /\ team' = team)
           /\ pc' = "done" => (s2.posIdx = 5 \/ s2.swaps = 3)
           /\ (s2.posIdx = 4 /\ s2'.posIdx = 5) => s2.swaps < 3
           /\ team' # team
                => /\ s2'.posIdx = s2.posIdx + 1
                   /\ s2'.swaps = s2.swaps + 1
                   /\ Cardinality(Range(team) \ Range(team')) = 1
                   /\ \A out \in Range(team) \ Range(team') :
                        players[out].position
                            = <<"FWD", "MID", "DEF", "GK">>[s2.posIdx]]_vars

\* All four positions were examined and a goalkeeper was swapped in last
C24_Witness ==
    /\ prog = "rto" /\ pc = "stage2" /\ s2.posIdx = 5 /\ s2.swaps \in 1..3
    /\ players[team[Len(team)]].position = "GK"

\* The original scores of the squad add up to the most any valid squad has
MaximizesOriginalScores(df, t, quota) ==
    \A S \in ValidSquads(df, quota) :
        SumOf(Scores(df), S) <= SumOf(Scores(df), Range(t))

Stage1Returned == prog = "rto" /\ pc = "stage1_done" /\ ret = "team"

\* C25 as stated: the flooring of stage 1 changes only scores of exactly 0;
\* every strictly positive score enters the objective unchanged, and the
\* squad returned maximizes the total of the original scores whenever all
\* scores are positive.
C25_FloorChangesOnlyZero ==
    (prog = "rto" /\ pc # "start")
        => /\ \A i \in DOMAIN players :
                players[i].score > 0
                    => FlooredScores(players)[i].score = players[i].score
           /\ (Stage1Returned /\ \A i \in DOMAIN players : players[i].score > 0)
                => MaximizesOriginalScores(players, team, formation_constraints)

\* C25 amended: the flooring changes only scores below the minimum of 0.1
\* (2 twentieths); every score of at least 0.1 enters the objective unchanged,
\* and the squad returned maximizes the total of the original scores whenever
\* all scores are at least 0.1.
C25_FloorChangesOnlyBelowMinimum ==
    (prog = "rto" /\ pc # "start")
        => /\ \A i \in DOMAIN players :
                players[i].score >= 2
                    => FlooredScores(players)[i].score = players[i].score
           /\ (Stage1Returned /\ \A i \in DOMAIN players : players[i].score >= 2)
                => MaximizesOriginalScores(players, team, formation_constraints)

\* Stage 1 returned a squad for a pool with a score of exactly 0.1, kept, and
\* a positive score under 0.1, raised
C25_Witness ==
    /\ Stage1Returned
    /\ \E i \in DOMAIN players : players[i].score = 2
    /\ \E i \in DOMAIN players :
            players[i].score = 1 /\ FlooredScores(players)[i].score = 2

\* C26: stage1_build_viable_team counts the goalkeepers labelled GKP, the
\* label of the data provider, toward its quota of 2 goalkeepers: a pool whose
\* goalkeepers are labelled GKP and that holds a valid squad (2 GKP, 5 DEF,
\* 5 MID, 3 FWD) yields a squad, not None.
C26_GkpLabelCountsAsGoalkeeper ==
    (/\ prog = "rto" /\ pc # "start"
     /\ PosIds(players, "GKP") # {}
     /\ ValidSquads(players, squad_requirements) # {})
        => ret = "team"

\* Squad members owned by less than 15%, and by more than 30%
DifferentialPicks(df, S) == {i \in S : df[i].selected_by_percent < 150}
TemplatePicks(df, S) == {i \in S : df[i].selected_by_percent > 300}

MiniFirstSolveTeam ==
    prog = "ewo" /\ mini /\ EwoBuilt /\ nSolves = 1 /\ ret = "team"

\* C27: in mini-league mode a team returned from an Optimal first solve has at
\* least 4 players owned by less than 15% and at most 6 owned by more than
\* 30%, and satisfies budget, size, quotas and club cap.
C27_MiniLeagueTeamShape ==
    MiniFirstSolveTeam
        => /\ status = "Optimal"
           /\ Cardinality(DifferentialPicks(players, Range(team))) >= 4
           /\ Cardinality(TemplatePicks(players, Range(team))) <= 6
           /\ SquadInvariant(players, team, formation_constraints)

\* A first-solve team of a pool that also holds valid squads with more than
\* 6 template players
C27_Witness ==
    /\ MiniFirstSolveTeam
    /\ \E S \in ValidSquads(players, formation_constraints) :
            Cardinality(TemplatePicks(players, S)) > 6

PoolReduced == prog = "wtb" /\ viable = "pass" /\ pc \notin {"start", "reduce"}

\* C28: the reduction of optimize_team_selection preserves viability: for a
\* pool that passed check_squad_viability, the reduced pool is part of the
\* pool, still has the quota of players in every position, and the quota
\* cheapest of every position cost what they cost in the full pool, so the
\* minimum squad cost is unchanged.
C28_ReductionKeepsViability ==
    PoolReduced
        => /\ reduced \subseteq DOMAIN players
           /\ \A p \in DOMAIN squad_requirements :
                /\ Cardinality(PosIds(Restrict(players, reduced), p))
                        >= squad_requirements[p]
                /\ LeastCost(Restrict(players, reduced), p)
                        = LeastCost(players, p)
           /\ CheapestSquadCost(Restrict(players, reduced))
                    = CheapestSquadCost(players)
           /\ CheapestSquadCost(Restrict(players, reduced)) <= DefaultBudget

\* The reduction dropped players of a pool that had passed the check
C28_Witness ==
    /\ PoolReduced /\ pc = "solve"
    /\ reduced # DOMAIN players
    /\ \E i \in DOMAIN players \ reduced :
            players[i].price < 10 * 5 + 5

\* The squad optimize_team_selection returned, as a data frame
ReturnedSquad == Restrict(players, Range(team))

MeetsQuotas(df) ==
    /\ Cardinality(DOMAIN df) = SquadSize
    /\ \A p \in DOMAIN squad_requirements :
            Cardinality(PosIds(df, p)) = squad_requirements[p]

\* A starting 11 of the squad in one of the listed formations: one goalkeeper,
\* the formation's count of every outfield position, and a bench of 4
ListedLineup(df, L) ==
    \E k \in DOMAIN Formations :
        /\ L = LineupOf(df, Formations[k])
        /\ Cardinality(L) = 11
        /\ Cardinality(L \cap PosIds(df, "GKP")) = 1
        /\ \A p \in DOMAIN Formations[k] :
                Cardinality(L \cap PosIds(df, p)) = Formations[k][p]
        /\ Cardinality(DOMAIN df \ L) = 4

\* C29: for every 15-player squad that meets the quotas, a squad whose scores
\* are all 0 included, suggest_starting_11 returns a lineup (not None) with a
\* starting 11 of one goalkeeper and 10 outfield players in a listed
\* formation and a bench of the remaining 4.
C29_LineupForEveryQuotaSquad ==
    (WtbSelected /\ pc = "done" /\ ret = "team" /\ MeetsQuotas(ReturnedSquad))
        => /\ outcome = "team"
           /\ \E L \in SUBSET DOMAIN ReturnedSquad :
                    ListedLineup(ReturnedSquad, L)

\* Sum of the adjusted (ownership-weighted) scores of a squad
AdjustedTotal(df, t) ==
    SumOf([k \in DOMAIN t |-> DifferentialScore(df[t[k]])], DOMAIN t)

NonNegativeAdjusted(df) == \A i \in DOMAIN df : DifferentialScore(df[i]) >= 0

\* C30: when all adjusted scores are non-negative, every swap of stage 2
\* strictly increases the squad's sum of adjusted scores and a step without
\* a swap leaves it as it is, so the output squad's adjusted total is at
\* least the input squad's, with equality exactly when no swap was made.
C30_SwapRaisesAdjustedTotal ==
    [][(prog = "rto" /\ pc = "stage2" /\ NonNegativeAdjusted(players))
        => /\ Stage2Swap
                => AdjustedTotal(players, team') > AdjustedTotal(players, team)
           /\ s2'.swaps = s2.swaps
                => AdjustedTotal(players, team') = AdjustedTotal(players, team)
           /\ Len(team') = Len(team)]_vars

\* Stage 2 has finished after two swaps: both removed players stand below
\* every squad member of their position in adjusted score
C30_Witness ==
    /\ Stage2Finished /\ s2.swaps = 2
    /\ AdjustedTotal(players, team) > 0
    /\ \E i, j \in DOMAIN players \ Range(team) :
            /\ i # j
            /\ \A k \in {i, j} : \A m \in Range(team) :
                    players[m].position = players[k].position
                        => DifferentialScore(players[m])
                                > DifferentialScore(players[k])

====

